---------------------------- MODULE Spec2Model ----------------------------
(*************************************************************************)
(* Model of the two data tools of database-expert-bot:                   *)
(*   - MongoDBKnowledgeTool  (server_mcp/tools/mongodb_search_knowledge) *)
(*   - PostgreSQLTool        (server_mcp/tools/postgresql_schema)        *)
(* Both tools are module-level singletons driven by an asyncio event     *)
(* loop.  None of their coroutines contains a suspension point (every    *)
(* store call is synchronous), so each handler runs to completion once   *)
(* scheduled: one action per handler, and every interleaving of handler  *)
(* calls is an interleaving of these actions.                            *)
(*************************************************************************)
EXTENDS Integers, Sequences, FiniteSets, TLC

VARIABLES
    knowledge,          \* documents of the 'knowledge' collection, natural order
    mongo_initialized,  \* MongoDBKnowledgeTool._initialized
    mongo_collection,   \* MongoDBKnowledgeTool._collection: "None" or "knowledge"
    mongo_closed,       \* whether mongo_db (the shared client) has been closed
    mongo_opens,        \* number of get_or_create_collection calls that returned
    mongo_call,         \* arguments of the last handler call on the Mongo tool
    mongo_ret,          \* outcome of the last handler call on the Mongo tool
    catalog,            \* the relational store's catalog (see Databases)
    pg_initialized,     \* PostgreSQLTool._initialized
    pg_conn,            \* PostgreSQLTool._conn: "None", "open" or "closed"
    pg_opens,           \* number of psycopg2.connect calls that returned
    pg_ever_ready,      \* history: some initialize() has completed successfully
    pg_connect_failed,  \* history: some initialize() ended with connect raising
    pg_call,            \* arguments of the last handler call on the PostgreSQL tool
    pg_ret,             \* outcome of the last handler call on the PostgreSQL tool
    norm_doc,           \* input of the normalizer harness
    norm_pc,            \* "start", "once" (normalized), "twice" (normalized again)
    norm_once,          \* _encode_mongo_document(norm_doc)
    norm_twice          \* _encode_mongo_document(norm_once)

mongo_vars == <<knowledge, mongo_initialized, mongo_collection, mongo_closed,
                mongo_opens, mongo_call, mongo_ret>>
pg_vars == <<catalog, pg_initialized, pg_conn, pg_opens, pg_ever_ready,
             pg_connect_failed, pg_call, pg_ret>>
norm_vars == <<norm_doc, norm_pc, norm_once, norm_twice>>
vars == <<mongo_vars, pg_vars, norm_vars>>

-----------------------------------------------------------------------------
(* Bounds of the model. *)

\* nesting levels of wrapper mappings/sequences put around a base document
MaxDepth == 1
\* largest number of documents in the 'knowledge' collection
MaxDocs == 3
\* largest positive limit passed to find
MaxLimit == 2

-----------------------------------------------------------------------------
(* Values of a document: a tagged union over the Python/BSON kinds.      *)

Str(s) == [kind |-> "str", s |-> s]
Num(n) == [kind |-> "int", n |-> n]
Null == [kind |-> "null"]
Oid(h) == [kind |-> "ObjectId", hex |-> h]
Bin(b) == [kind |-> "Binary", data |-> b]
Bytes(b) == [kind |-> "bytes", data |-> b]
Dt(t) == [kind |-> "datetime", day |-> t]
Map(f) == [kind |-> "dict", items |-> f]
List(s) == [kind |-> "list", elems |-> s]
\* an exception leaving the function instead of a value
Raised(e) == [kind |-> "raise", exc |-> e]

EmptyDict == [k \in {} |-> Null]

IsRaised(v) == v.kind = "raise"

\* a value handed back by a handler, as opposed to an exception
Returned(v) == [kind |-> "return", value |-> v]

Min(a, b) == IF a < b THEN a ELSE b

\* dict.get(key, default)
DictGet(f, key, default) == IF key \in DOMAIN f THEN f[key] ELSE default

-----------------------------------------------------------------------------
(* Helpers of app.utils, called by the normalizer.  Their code is not    *)
(* part of the sources at hand; they are modelled from the specification *)
(* of the Binary Content Classifier.                                     *)

\* byte payloads that occur in documents
Payloads == {"pdf", "junk", "jsonobj", "jsonhdr"}

\* base64.b64encode(b).decode('ascii')
B64(b) == Str("b64:" \o b)

\* try_extract_pdf_text: the extracted text; empty text when extraction fails
TryExtractPdfText(b) == IF b = "pdf" THEN Str("text of pdf") ELSE Str("")

\* try_decode_json: the decoded structure; base64 text when the bytes do not decode
TryDecodeJson(b) ==
    CASE b = "jsonobj" -> Map([x |-> Num(1)])
      [] b = "jsonhdr" -> Map([header |-> Str("h"), content |-> Str("c")])
      [] OTHER -> B64(b)

-----------------------------------------------------------------------------
(* MongoDBKnowledgeTool._encode_mongo_document                           *)

\* str.lower() on the file names that occur
Lower(s) == IF s = "A.JSON" THEN "a.json" ELSE s

\* str.endswith(".json") on the file names that occur
EndsWithJson(s) == s \in {"a.json"}

\* value == "literal" for a value of any kind
StrEq(v, s) == v.kind = "str" /\ v.s = s

\* isinstance(content, (bytes, Binary))
IsBytesLike(v) == v.kind \in {"bytes", "Binary"}

\* str(ObjectId): the identifier's hexadecimal text
OidStr(h) == Str(h)

\* datetime.isoformat()
IsoFormat(t) == Str("2024-01-0" \o ToString(t) \o "T00:00:00")

\* EncodeLeaf without its last isinstance branch: raw bytes pass through
EncodeLeaf_KeepBytes(doc) ==
    CASE doc.kind = "ObjectId" -> OidStr(doc.hex)
      [] doc.kind = "Binary" -> B64(doc.data)
      [] doc.kind = "datetime" -> IsoFormat(doc.day)
      [] OTHER -> doc

\* the branches for values that are neither dict nor list (lines 99-108)
EncodeLeaf(doc) ==
    CASE doc.kind = "ObjectId" -> OidStr(doc.hex)
      [] doc.kind = "Binary" -> B64(doc.data)
      [] doc.kind = "datetime" -> IsoFormat(doc.day)
      [] doc.kind = "bytes" -> B64(doc.data)
      [] OTHER -> doc

\* the "content" override of a dict (lines 69-94); new_doc is the dict of
\* recursively encoded values
EncodeContent(doc, file_type, file_name, new_doc) ==
    IF "content" \notin DOMAIN doc
    THEN Map(new_doc)
    ELSE LET content == doc["content"] IN
         IF StrEq(file_type, "application/pdf") /\ IsBytesLike(content)
         THEN Map([new_doc EXCEPT !["content"] = TryExtractPdfText(content.data)])
         ELSE IF StrEq(file_type, "application/json")
         THEN IF IsBytesLike(content)
              THEN Map([new_doc EXCEPT !["content"] = TryDecodeJson(content.data)])
              ELSE Map(new_doc)
         \* file_name.lower() is evaluated here: only str has a usable lower()
         ELSE IF file_name.kind # "str"
         THEN Raised(IF IsBytesLike(file_name) THEN "TypeError" ELSE "AttributeError")
         ELSE IF EndsWithJson(Lower(file_name.s)) /\ IsBytesLike(content)
         THEN Map([new_doc EXCEPT !["content"] = TryDecodeJson(content.data)])
         ELSE Map(new_doc)

RECURSIVE EncodeMongoDocument(_)
EncodeMongoDocument(doc) ==
    IF doc.kind = "dict"
    THEN LET header == DictGet(doc.items, "header", Map(EmptyDict)) IN
         \* doc.get("header", {}).get(...): only a dict has get()
         IF header.kind # "dict"
         THEN Raised("AttributeError")
         ELSE LET file_type == DictGet(header.items, "type", Null)
                  file_name == DictGet(header.items, "file_name", Str(""))
                  new_doc == [k \in DOMAIN doc.items |-> EncodeMongoDocument(doc.items[k])]
              IN IF \E k \in DOMAIN new_doc : IsRaised(new_doc[k])
                 THEN Raised("AttributeError")
                 ELSE EncodeContent(doc.items, file_type, file_name, new_doc)
    ELSE IF doc.kind = "list"
    THEN LET items == [i \in DOMAIN doc.elems |-> EncodeMongoDocument(doc.elems[i])] IN
         IF \E i \in DOMAIN items : IsRaised(items[i])
         THEN Raised("AttributeError")
         ELSE List(items)
    ELSE EncodeLeaf(doc)

-----------------------------------------------------------------------------
(* The document store as the Mongo tool uses it: collection.find,        *)
(* cursor.limit, cursor.sort, iteration, find_one, count_documents.      *)

\* store-side match of a filter: every field of the filter is equal in the document
Matches(doc, f) ==
    \A k \in DOMAIN f : k \in DOMAIN doc.items /\ doc.items[k] = f[k]

\* the documents of coll matching f, in natural order
Matching(coll, f) == SelectSeq(coll, LAMBDA d : Matches(d, f))

\* the value a document is ordered by: field "n", missing values first
SortKey(doc, field) ==
    IF field \in DOMAIN doc.items /\ doc.items[field].kind = "int"
    THEN doc.items[field].n ELSE 0

\* docs ordered by field, ascending for dir = 1 and descending for dir = -1
SortedBy(docs, field, dir) ==
    LET n == Len(docs)
        Before(j, i) ==
            \/ dir * SortKey(docs[j], field) < dir * SortKey(docs[i], field)
            \/ SortKey(docs[j], field) = SortKey(docs[i], field) /\ j < i
        Rank(i) == Cardinality({j \in 1..n : Before(j, i)})
    IN [r \in 1..n |-> docs[CHOOSE i \in 1..n : Rank(i) = r - 1]]

\* collection.find(filter_dict): a cursor with no limit and no sort
CollectionFind(filter_dict) == [filter |-> filter_dict, limit |-> 0, sort |-> <<>>]

\* cursor.limit(n)
CursorLimit(cursor, n) == [cursor EXCEPT !.limit = n]

\* cursor.sort(key_list)
CursorSort(cursor, key_list) == [cursor EXCEPT !.sort = key_list]

\* iterating a cursor: the store filters, sorts, then cuts at the limit
CursorDocs(coll, cursor) ==
    LET matched == Matching(coll, cursor.filter)
        sorted == IF cursor.sort = <<>> THEN matched
                  ELSE SortedBy(matched, cursor.sort[1][1], cursor.sort[1][2].n)
    IN IF cursor.limit > 0
       THEN SubSeq(sorted, 1, Min(cursor.limit, Len(sorted)))
       ELSE sorted

\* collection.find_one(filter_dict): the first match, or None
CollectionFindOne(coll, filter_dict) ==
    LET matched == Matching(coll, filter_dict) IN
    IF matched = <<>> THEN Null ELSE matched[1]

\* collection.count_documents(filter_dict)
CountDocuments(coll, filter_dict) == Len(Matching(coll, filter_dict))

-----------------------------------------------------------------------------
(* MongoDBKnowledgeTool.execute_operation                                *)

\* truth value of a Python object in an if
Truthy(v) ==
    CASE v.kind = "null" -> FALSE
      [] v.kind = "dict" -> DOMAIN v.items # {}
      [] v.kind = "list" -> v.elems # <<>>
      [] v.kind = "int" -> v.n # 0
      [] v.kind = "str" -> v.s # ""
      [] OTHER -> TRUE

\* [(k, v) for k, v in sort.items()], for a sort of at most one key
SortItems(sort) ==
    IF DOMAIN sort.items = {} THEN <<>>
    ELSE LET k == CHOOSE x \in DOMAIN sort.items : TRUE IN << <<k, sort.items[k]>> >>

\* ApplyLimit with the comparison off by one: a limit of 1 is not applied
ApplyLimit_OffByOne(cursor, limit) ==
    IF limit.n > 1 THEN CursorLimit(cursor, limit.n) ELSE cursor

\* lines 161-162: if limit > 0: cursor = cursor.limit(limit)
ApplyLimit(cursor, limit) ==
    IF limit.n > 0 THEN CursorLimit(cursor, limit.n) ELSE cursor

\* lines 163-164: if sort: cursor = cursor.sort([...])
ApplySort(cursor, sort) ==
    IF Truthy(sort) THEN CursorSort(cursor, SortItems(sort)) ELSE cursor

\* FindReturn that also reports how many documents were found
FindReturn_WithCount(results) ==
    Returned(Map([results |-> List(results), count |-> Num(Len(results))]))

\* line 171: return {"results": results}
FindReturn(results) == Returned(Map([results |-> List(results)]))

\* lines 158-171: the find branch; store_fault is the store raising while the
\* cursor is read
ExecFind(coll, filter_dict, limit, sort, store_fault) ==
    IF limit.kind # "int"
    THEN Raised("TypeError")            \* None > 0
    ELSE IF store_fault
    THEN Raised("PyMongoError")
    ELSE LET cursor == ApplySort(ApplyLimit(CollectionFind(filter_dict), limit), sort)
             docs == CursorDocs(coll, cursor)
             results == [i \in DOMAIN docs |-> EncodeMongoDocument(docs[i])]
         IN IF \E i \in DOMAIN results : IsRaised(results[i])
            THEN (CHOOSE r \in {results[i] : i \in DOMAIN results} : IsRaised(r))
            ELSE FindReturn(results)

\* lines 173-180: the find_one branch
ExecFindOne(coll, filter_dict, store_fault) ==
    IF store_fault
    THEN Raised("PyMongoError")
    ELSE LET result == CollectionFindOne(coll, filter_dict)
             encoded == IF Truthy(result) THEN EncodeMongoDocument(result) ELSE result
         IN IF IsRaised(encoded) THEN encoded
            ELSE Returned(Map([result |-> encoded]))

\* lines 182-185: the count branch
ExecCount(coll, filter_dict, store_fault) ==
    IF store_fault
    THEN Raised("PyMongoError")
    ELSE Returned(Map([count |-> Num(CountDocuments(coll, filter_dict))]))

\* lines 191-193: except Exception as e: return {"error": ...}
CatchAll(outcome) ==
    IF IsRaised(outcome)
    THEN Returned(Map([error |-> Str("Database operation failed: " \o outcome.exc)]))
    ELSE outcome

\* lines 146-193: execute_operation once the tool is initialized
ExecuteBody(coll, operation, filter_arg, limit, sort, store_fault) ==
    LET filter_dict == IF Truthy(filter_arg) THEN filter_arg.items ELSE EmptyDict IN
    IF operation = ""
    THEN Returned(Map([error |-> Str("Operation is required")]))
    ELSE CatchAll(
        CASE operation = "find" -> ExecFind(coll, filter_dict, limit, sort, store_fault)
          [] operation = "find_one" -> ExecFindOne(coll, filter_dict, store_fault)
          [] operation = "count" -> ExecCount(coll, filter_dict, store_fault)
          [] OTHER -> Returned(Map([error |->
                        Str("Operation '" \o operation \o "' is not supported")])))

-----------------------------------------------------------------------------
(* Lifecycle and handlers of MongoDBKnowledgeTool.                       *)

\* the arguments a caller passes to execute_operation
Operations == {"find", "find_one", "count", "", "bogus"}
FilterArgs == {Null, Map(EmptyDict), Map([n |-> Num(1)])}
LimitArgs == {Null} \cup {Num(n) : n \in 0..MaxLimit}
SortArgs == {Null, Map([n |-> Num(1)]), Map([n |-> Num(-1)])}

\* limit and sort are read by find alone; the other operations are called
\* with the defaults of the signature
LimitsFor(operation) == IF operation = "find" THEN LimitArgs ELSE {Num(0)}
SortsFor(operation) == IF operation = "find" THEN SortArgs ELSE {Null}
\* the store can fail where it is called: when the collection is obtained, and
\* when find, find_one or count reads it
OpenFaults(initialized) == IF initialized THEN {FALSE} ELSE BOOLEAN
StoreFaults(operation) ==
    IF operation \in {"find", "find_one", "count"} THEN BOOLEAN ELSE {FALSE}

\* the tool's fields, with the count of collections obtained
MongoState == [initialized |-> mongo_initialized, collection |-> mongo_collection,
               opens |-> mongo_opens]

\* initialize (lines 29-35) from state st; open_fault is get_or_create_collection
\* raising.  The result is the new state and what the call hands back.
MongoInitializeStep(st, open_fault) ==
    IF st.initialized
    THEN [st |-> st, out |-> Returned(Null)]
    ELSE IF open_fault
    THEN [st |-> st, out |-> Raised("PyMongoError")]
    ELSE [st |-> [initialized |-> TRUE, collection |-> "knowledge",
                  opens |-> st.opens + 1],
          out |-> Returned(Null)]

\* await mongodb_tool.initialize()
MongoInitialize ==
    \E open_fault \in OpenFaults(mongo_initialized) :
        LET step == MongoInitializeStep(MongoState, open_fault) IN
        /\ mongo_initialized' = step.st.initialized
        /\ mongo_collection' = step.st.collection
        /\ mongo_opens' = step.st.opens
        /\ mongo_call' = [op |-> "initialize"]
        /\ mongo_ret' = step.out
        /\ UNCHANGED <<knowledge, mongo_closed, pg_vars, norm_vars>>

\* await mongodb_tool.close() (lines 37-41): the client is always set
MongoClose ==
    /\ mongo_closed' = TRUE
    /\ mongo_call' = [op |-> "close"]
    /\ mongo_ret' = Returned(Null)
    /\ UNCHANGED <<knowledge, mongo_initialized, mongo_collection, mongo_opens,
                   pg_vars, norm_vars>>

\* execute_operation (lines 143-193): lazy initialize, then the operation
ExecuteOperation(st, coll, operation, filter_arg, limit, sort, open_fault, store_fault) ==
    LET step == IF ~st.initialized
                THEN MongoInitializeStep(st, open_fault)
                ELSE [st |-> st, out |-> Returned(Null)]
    IN [st |-> step.st,
        out |-> IF IsRaised(step.out)
                THEN step.out
                ELSE ExecuteBody(coll, operation, filter_arg, limit, sort, store_fault)]

\* await mongodb_search_knowledge(params)
MongoExecuteOperation ==
    \E operation \in Operations, filter_arg \in FilterArgs :
    \E limit \in LimitsFor(operation), sort \in SortsFor(operation),
       open_fault \in OpenFaults(mongo_initialized),
       store_fault \in StoreFaults(operation) :
    \E call \in {ExecuteOperation(MongoState, knowledge, operation, filter_arg,
                                  limit, sort, open_fault, store_fault)} :
        /\ mongo_initialized' = call.st.initialized
        /\ mongo_collection' = call.st.collection
        /\ mongo_opens' = call.st.opens
        /\ mongo_call' = [op |-> "execute_operation", operation |-> operation,
                          filter |-> filter_arg, limit |-> limit, sort |-> sort]
        /\ mongo_ret' = call.out
        /\ UNCHANGED <<knowledge, mongo_closed, pg_vars, norm_vars>>

MongoNext == MongoInitialize \/ MongoClose \/ MongoExecuteOperation

-----------------------------------------------------------------------------
(* The relational store's catalog.  A database is its tables, columns    *)
(* and constraints; the information_schema views the tool queries are    *)
(* derived from them as PostgreSQL derives them.  A constraint carries   *)
(* its system identifier (oid): constraint names are unique per table    *)
(* only, and a view returns one row per underlying constraint column.    *)

Table(schema, name) == [table_schema |-> schema, table_name |-> name]
Column(table, pos, name, type, nullable) ==
    [table_schema |-> "public", table_name |-> table, ordinal_position |-> pos,
     column_name |-> name, data_type |-> type, is_nullable |-> nullable,
     column_default |-> "None", character_maximum_length |-> "None",
     numeric_precision |-> IF type = "integer" THEN "32" ELSE "None",
     numeric_scale |-> IF type = "integer" THEN "0" ELSE "None"]
PrimaryKey(oid, name, table, cols) ==
    [oid |-> oid, constraint_name |-> name, table_schema |-> "public",
     table_name |-> table, constraint_type |-> "PRIMARY KEY", cols |-> cols,
     ref_table |-> table, ref_cols |-> cols]
ForeignKey(oid, name, table, cols, ref_table, ref_cols) ==
    [oid |-> oid, constraint_name |-> name, table_schema |-> "public",
     table_name |-> table, constraint_type |-> "FOREIGN KEY", cols |-> cols,
     ref_table |-> ref_table, ref_cols |-> ref_cols]

\* users(id PK, name), orders(id PK, user_id FK -> users.id)
ShopDb ==
    [tables |-> {Table("public", "users"), Table("public", "orders")},
     columns |-> {Column("users", 1, "id", "integer", "NO"),
                  Column("users", 2, "name", "text", "YES"),
                  Column("orders", 1, "id", "integer", "NO"),
                  Column("orders", 2, "user_id", "integer", "YES")},
     constraints |-> {PrimaryKey(1, "users_pkey", "users", <<"id">>),
                      PrimaryKey(2, "orders_pkey", "orders", <<"id">>),
                      ForeignKey(3, "orders_user_id_fkey", "orders", <<"user_id">>,
                                 "users", <<"id">>)}]

\* a two-column primary key referenced by a two-column foreign key
CompositeDb ==
    [tables |-> {Table("public", "parent"), Table("public", "child")},
     columns |-> {Column("parent", 1, "a", "integer", "NO"),
                  Column("parent", 2, "b", "integer", "NO"),
                  Column("child", 1, "x", "integer", "YES"),
                  Column("child", 2, "y", "integer", "YES")},
     constraints |-> {PrimaryKey(1, "parent_pkey", "parent", <<"a", "b">>),
                      ForeignKey(2, "child_fkey", "child", <<"x", "y">>,
                                 "parent", <<"a", "b">>)}]

\* two tables whose foreign keys carry the same constraint name
SharedNameDb ==
    [tables |-> {Table("public", "users"), Table("public", "products"),
                 Table("public", "orders"), Table("public", "items")},
     columns |-> {Column("users", 1, "id", "integer", "NO"),
                  Column("products", 1, "sku", "text", "NO"),
                  Column("orders", 1, "user_id", "integer", "YES"),
                  Column("items", 1, "product_sku", "text", "YES")},
     constraints |-> {PrimaryKey(1, "users_pkey", "users", <<"id">>),
                      PrimaryKey(2, "products_pkey", "products", <<"sku">>),
                      ForeignKey(3, "fk_ref", "orders", <<"user_id">>,
                                 "users", <<"id">>),
                      ForeignKey(4, "fk_ref", "items", <<"product_sku">>,
                                 "products", <<"sku">>)}]

\* one table without any key, and a table outside the working schema
PlainDb ==
    [tables |-> {Table("public", "notes"), Table("audit", "log")},
     columns |-> {Column("notes", 1, "body", "text", "YES")},
     constraints |-> {}]

\* a database without tables
EmptyDb == [tables |-> {}, columns |-> {}, constraints |-> {}]

Databases == {ShopDb, CompositeDb, SharedNameDb, PlainDb, EmptyDb}

\* table names in the order ORDER BY table_name gives them
NameOrder == <<"child", "items", "log", "nonexistent", "notes", "orders", "parent",
               "products", "users">>
NameIndex(name) == CHOOSE i \in DOMAIN NameOrder : NameOrder[i] = name

\* the rows of a set as a list, in the order of key, a function on the rows
\* that gives each a different number
OrderedRows(rows, key) ==
    [r \in 1..Cardinality(rows) |->
        CHOOSE x \in rows : Cardinality({q \in rows : key[q] < key[x]}) = r - 1]

\* the rows of a set as a list, in the order the scan happens to give
RECURSIVE ScanRows(_)
ScanRows(rows) ==
    IF rows = {} THEN <<>>
    ELSE LET first == CHOOSE r \in rows : TRUE
         IN <<first>> \o ScanRows(rows \ {first})

\* information_schema.table_constraints
TableConstraints(db) ==
    {[oid |-> c.oid, constraint_name |-> c.constraint_name,
      table_schema |-> c.table_schema, table_name |-> c.table_name,
      constraint_type |-> c.constraint_type] : c \in db.constraints}

\* information_schema.key_column_usage: the constrained columns
KeyColumnUsage(db) ==
    UNION {{[oid |-> c.oid, constraint_name |-> c.constraint_name,
             table_name |-> c.table_name, column_name |-> c.cols[i],
             ordinal_position |-> i] : i \in DOMAIN c.cols} : c \in db.constraints}

\* information_schema.constraint_column_usage: the columns a constraint uses;
\* for a foreign key these are the referenced columns (position only tells
\* apart rows of the view that show the same values)
ConstraintColumnUsage(db) ==
    UNION {{[oid |-> c.oid, constraint_name |-> c.constraint_name,
             table_name |-> c.ref_table, column_name |-> c.ref_cols[i],
             position |-> i] : i \in DOMAIN c.ref_cols} : c \in db.constraints}

-----------------------------------------------------------------------------
(* The catalog queries of PostgreSQLTool and the cursor they run on.     *)

\* lines 55-61: table names of the working schema, ordered by name
TablesQuery(db) ==
    LET rows == {t \in db.tables : t.table_schema = "public"}
    IN OrderedRows(rows, [t \in rows |-> NameIndex(t.table_name)])

\* lines 64-74: the columns of a table, ordered by ordinal position
ColumnsQuery(db, table) ==
    LET rows == {c \in db.columns :
                    c.table_schema = "public" /\ c.table_name = table}
        ordered == OrderedRows(rows, [c \in rows |-> c.ordinal_position])
    IN [i \in DOMAIN ordered |->
            [name |-> ordered[i].column_name, type |-> ordered[i].data_type,
             is_nullable |-> ordered[i].is_nullable]]

\* lines 35-46: the primary-key columns of a table; the join is on the
\* constraint name alone
PrimaryKeyQuery(db, table) ==
    LET joined == {<<tc, kcu>> \in TableConstraints(db) \X KeyColumnUsage(db) :
                      /\ tc.constraint_name = kcu.constraint_name
                      /\ tc.table_schema = "public"
                      /\ tc.table_name = table
                      /\ tc.constraint_type = "PRIMARY KEY"}
        rows == ScanRows(joined)
    IN [i \in DOMAIN rows |-> [column_name |-> rows[i][2].column_name]]

\* lines 88-102: the foreign-key edges; both joins are on the constraint
\* name alone
RelationsQuery(db) ==
    LET joined == {<<tc, kcu, ccu>> \in TableConstraints(db) \X KeyColumnUsage(db)
                                        \X ConstraintColumnUsage(db) :
                      /\ tc.constraint_name = kcu.constraint_name
                      /\ ccu.constraint_name = tc.constraint_name
                      /\ tc.constraint_type = "FOREIGN KEY"
                      /\ tc.table_schema = "public"}
        rows == ScanRows(joined)
    IN [i \in DOMAIN rows |->
            [from_table |-> rows[i][1].table_name,
             from_column |-> rows[i][2].column_name,
             to_table |-> rows[i][3].table_name,
             to_column |-> rows[i][3].column_name]]

\* lines 120-133: the extended columns of a table, ordered by ordinal position
DetailsQuery(db, table) ==
    LET rows == {c \in db.columns :
                    c.table_schema = "public" /\ c.table_name = table}
        ordered == OrderedRows(rows, [c \in rows |-> c.ordinal_position])
    IN [i \in DOMAIN ordered |->
            [column_name |-> ordered[i].column_name,
             data_type |-> ordered[i].data_type,
             is_nullable |-> ordered[i].is_nullable,
             column_default |-> ordered[i].column_default,
             character_maximum_length |-> ordered[i].character_maximum_length,
             numeric_precision |-> ordered[i].numeric_precision,
             numeric_scale |-> ordered[i].numeric_scale]]

\* A psycopg2 cursor: the rows of its last statement that are not fetched yet,
\* and the number of statements it has run.
NewCursor == [pending |-> <<>>, executed |-> 0]

\* cursor.execute(query): the statement's rows replace what was pending
CursorExecute(cur, rows) == [pending |-> rows, executed |-> cur.executed + 1]

\* cursor.fetchall(): hands over the pending rows and leaves none
CursorFetchall(cur) == [rows |-> cur.pending, cur |-> [cur EXCEPT !.pending = <<>>]]

\* _get_primary_keys (lines 34-47)
GetPrimaryKeys(db, table, cursor) ==
    LET cur1 == CursorExecute(cursor, PrimaryKeyQuery(db, table))
        fetched == CursorFetchall(cur1)
    IN [pk_cols |-> {fetched.rows[i].column_name : i \in DOMAIN fetched.rows},
        cur |-> fetched.cur]

\* lines 64-86: one iteration of the loop over the tables
TableColumns(db, table, cursor) ==
    LET cur1 == CursorExecute(cursor, ColumnsQuery(db, table))
        pk == GetPrimaryKeys(db, table, cur1)
        fetched == CursorFetchall(pk.cur)
    IN [columns |-> [i \in DOMAIN fetched.rows |->
                        [name |-> fetched.rows[i].name,
                         type |-> fetched.rows[i].type,
                         nullable |-> fetched.rows[i].is_nullable,
                         is_primary_key |-> fetched.rows[i].name \in pk.pk_cols]],
        cur |-> fetched.cur]

\* lines 63-86: the loop over the tables, from position i of the list
RECURSIVE TablesLoop(_, _, _, _, _)
TablesLoop(db, tables, i, cursor, acc) ==
    IF i > Len(tables)
    THEN [tables |-> acc, cur |-> cursor]
    ELSE LET one == TableColumns(db, tables[i], cursor)
             name == tables[i]
         IN TablesLoop(db, tables, i + 1, one.cur,
                       [t \in DOMAIN acc \cup {name} |->
                           IF t = name THEN [columns |-> one.columns] ELSE acc[t]])

\* get_database_structure (lines 53-112) on an open connection
DatabaseStructure(db) ==
    LET cur1 == CursorExecute(NewCursor, TablesQuery(db))
        f1 == CursorFetchall(cur1)
        tables == [i \in DOMAIN f1.rows |-> f1.rows[i].table_name]
        loop == TablesLoop(db, tables, 1, f1.cur, <<>>)
        cur2 == CursorExecute(loop.cur, RelationsQuery(db))
        f2 == CursorFetchall(cur2)
    IN [result |-> [tables |-> loop.tables, relations |-> f2.rows],
        executed |-> f2.cur.executed]

\* get_table_details (lines 118-135) on an open connection
TableDetails(db, table) ==
    LET cur1 == CursorExecute(NewCursor, DetailsQuery(db, table))
        f1 == CursorFetchall(cur1)
    IN [result |-> [table |-> table, columns |-> f1.rows],
        executed |-> f1.cur.executed]

-----------------------------------------------------------------------------
(* Lifecycle and handlers of PostgreSQLTool.                             *)

PgState == [initialized |-> pg_initialized, conn |-> pg_conn, opens |-> pg_opens]

\* PgInitializeStep without the early return on an initialized tool
PgInitializeStep_NoGuard(st, connect_fault) ==
    IF connect_fault
    THEN [st |-> st, out |-> Raised("OperationalError")]
    ELSE [st |-> [initialized |-> TRUE, conn |-> "open", opens |-> st.opens + 1],
          out |-> Returned(Null)]

\* PgInitializeStep that sets the flag before it connects
PgInitializeStep_FlagFirst(st, connect_fault) ==
    IF st.initialized
    THEN [st |-> st, out |-> Returned(Null)]
    ELSE IF connect_fault
    THEN [st |-> [st EXCEPT !.initialized = TRUE], out |-> Raised("OperationalError")]
    ELSE [st |-> [initialized |-> TRUE, conn |-> "open", opens |-> st.opens + 1],
          out |-> Returned(Null)]

\* initialize (lines 21-26) from state st; connect_fault is psycopg2.connect
\* raising
PgInitializeStep(st, connect_fault) ==
    IF st.initialized
    THEN [st |-> st, out |-> Returned(Null)]
    ELSE IF connect_fault
    THEN [st |-> st, out |-> Raised("OperationalError")]
    ELSE [st |-> [initialized |-> TRUE, conn |-> "open", opens |-> st.opens + 1],
          out |-> Returned(Null)]

\* close (lines 30-32)
PgCloseStep(st) ==
    IF st.conn # "None" THEN [st EXCEPT !.conn = "closed"] ELSE st

\* self._conn.cursor(...): what stops a handler before its first statement
CursorFault(st) ==
    CASE st.conn = "None" -> Raised("AttributeError")
      [] st.conn = "closed" -> Raised("InterfaceError")
      [] OTHER -> Returned(Null)

\* get_database_structure (lines 49-112); query_fault is the store failing the
\* first statement
GetDatabaseStructure(st, db, query_fault) ==
    IF ~st.initialized
    THEN [out |-> Raised("RuntimeError: Tool not initialized"), executed |-> 0]
    ELSE IF IsRaised(CursorFault(st))
    THEN [out |-> CursorFault(st), executed |-> 0]
    ELSE IF query_fault
    THEN [out |-> Raised("DatabaseError"), executed |-> 1]
    ELSE [out |-> Returned(DatabaseStructure(db).result),
          executed |-> DatabaseStructure(db).executed]

\* get_table_details (lines 114-135)
GetTableDetails(st, db, table, query_fault) ==
    IF ~st.initialized
    THEN [out |-> Raised("RuntimeError: Tool not initialized"), executed |-> 0]
    ELSE IF IsRaised(CursorFault(st))
    THEN [out |-> CursorFault(st), executed |-> 0]
    ELSE IF query_fault
    THEN [out |-> Raised("DatabaseError"), executed |-> 1]
    ELSE [out |-> Returned(TableDetails(db, table).result),
          executed |-> TableDetails(db, table).executed]

\* await postgresql_tool.initialize()
PgInitialize ==
    \E connect_fault \in OpenFaults(pg_initialized) :
        LET step == PgInitializeStep(PgState, connect_fault) IN
        /\ pg_initialized' = step.st.initialized
        /\ pg_conn' = step.st.conn
        /\ pg_opens' = step.st.opens
        /\ pg_ever_ready' = (pg_ever_ready \/ ~IsRaised(step.out))
        /\ pg_connect_failed' = (pg_connect_failed \/ IsRaised(step.out))
        /\ pg_call' = [op |-> "initialize"]
        /\ pg_ret' = [out |-> step.out, executed |-> 0]
        /\ UNCHANGED <<catalog, mongo_vars, norm_vars>>

\* await postgresql_tool.close()
PgClose ==
    /\ pg_conn' = PgCloseStep(PgState).conn
    /\ pg_call' = [op |-> "close"]
    /\ pg_ret' = [out |-> Returned(Null), executed |-> 0]
    /\ UNCHANGED <<catalog, pg_initialized, pg_opens, pg_ever_ready,
                   pg_connect_failed, mongo_vars, norm_vars>>

\* await postgres_get_structure()
PgGetDatabaseStructure ==
    \E query_fault \in BOOLEAN :
        /\ pg_call' = [op |-> "get_database_structure"]
        /\ pg_ret' = GetDatabaseStructure(PgState, catalog, query_fault)
        /\ UNCHANGED <<catalog, pg_initialized, pg_conn, pg_opens, pg_ever_ready,
                       pg_connect_failed, mongo_vars, norm_vars>>

\* the table names a caller asks about
TableArgs == {t.table_name : t \in catalog.tables} \cup {"nonexistent"}

\* await postgres_get_table_details(params)
PgGetTableDetails ==
    \E table \in TableArgs, query_fault \in BOOLEAN :
        /\ pg_call' = [op |-> "get_table_details", table |-> table]
        /\ pg_ret' = GetTableDetails(PgState, catalog, table, query_fault)
        /\ UNCHANGED <<catalog, pg_initialized, pg_conn, pg_opens, pg_ever_ready,
                       pg_connect_failed, mongo_vars, norm_vars>>

PgNext == PgInitialize \/ PgClose \/ PgGetDatabaseStructure \/ PgGetTableDetails

-----------------------------------------------------------------------------
(* Documents the model feeds to the normalizer and keeps in the store.   *)

\* a key that a dict does not have
Absent == [kind |-> "absent"]

\* the dict with the given <<key, value>> pairs, Absent values left out
DictOf(pairs) ==
    LET present == {p \in pairs : p[2] # Absent}
    IN [k \in {p[1] : p \in present} |-> (CHOOSE p \in present : p[1] = k)[2]]

TypeOptions == {Absent, Str("application/pdf"), Str("application/json"),
                Str("text/plain")}
NameOptions == {Absent, Str("a.json"), Str("A.JSON"), Str("a.pdf"), Num(5)}
HeaderOptions ==
    {Absent, Str("h"), Null}
    \cup {Map(DictOf({<<"type", t>>, <<"file_name", n>>})) :
            t \in TypeOptions, n \in NameOptions}
ContentOptions ==
    {Absent, Str("c"), Oid("65a1")}
    \cup {Bin(b) : b \in Payloads} \cup {Bytes(b) : b \in Payloads}
IdOptions == {Absent, Oid("65a0")}
TagsOptions == {Absent, List(<<Dt(1), Map([x |-> Bin("junk")])>>)}

\* documents without wrappers
BaseDocs ==
    {Map(DictOf({<<"_id", i>>, <<"header", h>>, <<"content", c>>, <<"tags", t>>})) :
        i \in IdOptions, h \in HeaderOptions, c \in ContentOptions, t \in TagsOptions}

\* documents nested in up to depth wrapper mappings and sequences
RECURSIVE NestedDocs(_)
NestedDocs(depth) ==
    IF depth = 0 THEN BaseDocs
    ELSE LET inner == NestedDocs(depth - 1)
         IN inner \cup {Map([child |-> d]) : d \in inner}
                  \cup {List(<<d>>) : d \in inner}

Docs == NestedDocs(MaxDepth)

\* documents of the 'knowledge' collection: a plain one with nested native
\* values, a PDF file, a JSON file named by extension, and one whose header
\* is not a mapping
StoredDocs ==
    << Map([_id |-> Oid("65a0"), n |-> Num(1),
            tags |-> List(<<Dt(1), Map([x |-> Bin("junk"), y |-> Bytes("pdf")])>>)]),
       Map([_id |-> Oid("65a1"), n |-> Num(2),
            header |-> Map([type |-> Str("application/pdf"),
                            file_name |-> Str("a.pdf")]),
            content |-> Bin("pdf")]),
       Map([_id |-> Oid("65a2"), n |-> Num(1),
            header |-> Map([file_name |-> Str("A.JSON")]),
            content |-> Bytes("jsonobj")]),
       Map([_id |-> Oid("65a3"), n |-> Num(3), header |-> Str("h")]) >>

\* the documents of StoredDocs at the positions of idx, in their order
RECURSIVE Pick(_, _)
Pick(idx, from) ==
    IF from > Len(StoredDocs) THEN <<>>
    ELSE (IF from \in idx THEN <<StoredDocs[from]>> ELSE <<>>) \o Pick(idx, from + 1)

Collections ==
    {Pick(idx, 1) : idx \in {s \in SUBSET DOMAIN StoredDocs : Cardinality(s) <= MaxDocs}}

-----------------------------------------------------------------------------
(* Harness of the normalizer: one document, normalized, then normalized  *)
(* again.                                                                *)

Normalize ==
    /\ norm_pc = "start"
    /\ norm_once' = EncodeMongoDocument(norm_doc)
    /\ norm_pc' = "once"
    /\ UNCHANGED <<norm_doc, norm_twice, mongo_vars, pg_vars>>

NormalizeAgain ==
    /\ norm_pc = "once"
    /\ ~IsRaised(norm_once)
    /\ norm_twice' = EncodeMongoDocument(norm_once)
    /\ norm_pc' = "twice"
    /\ UNCHANGED <<norm_doc, norm_once, mongo_vars, pg_vars>>

NormNext == Normalize \/ NormalizeAgain

-----------------------------------------------------------------------------
(* Initial states and specifications.                                    *)

\* MongoDBKnowledgeTool.__init__
MongoConstructed ==
    /\ mongo_initialized = FALSE
    /\ mongo_collection = "None"
    /\ mongo_closed = FALSE
    /\ mongo_opens = 0
    /\ mongo_call = [op |-> "none"]
    /\ mongo_ret = Returned(Null)

\* PostgreSQLTool.__init__
PgConstructed ==
    /\ pg_initialized = FALSE
    /\ pg_conn = "None"
    /\ pg_opens = 0
    /\ pg_ever_ready = FALSE
    /\ pg_connect_failed = FALSE
    /\ pg_call = [op |-> "none"]
    /\ pg_ret = [out |-> Returned(Null), executed |-> 0]

NormIdle ==
    /\ norm_doc = Null
    /\ norm_pc = "idle"
    /\ norm_once = Null
    /\ norm_twice = Null

\* both tools of one deployment, over one store each
Init ==
    /\ knowledge = Pick({1, 2}, 1)
    /\ catalog = ShopDb
    /\ MongoConstructed /\ PgConstructed /\ NormIdle

Next == MongoNext \/ PgNext

Spec == Init /\ [][Next]_vars

\* the Mongo tool over every collection
InitMongo ==
    /\ knowledge \in Collections
    /\ catalog = ShopDb
    /\ MongoConstructed /\ PgConstructed /\ NormIdle

SpecMongo == InitMongo /\ [][MongoNext]_vars

\* the PostgreSQL tool over every database
InitPg ==
    /\ knowledge = <<>>
    /\ catalog \in Databases
    /\ MongoConstructed /\ PgConstructed /\ NormIdle

SpecPg == InitPg /\ [][PgNext]_vars

\* the normalizer over every document
InitNorm ==
    /\ knowledge = <<>>
    /\ catalog = ShopDb
    /\ MongoConstructed /\ PgConstructed
    /\ norm_doc \in Docs
    /\ norm_pc = "start"
    /\ norm_once = Null
    /\ norm_twice = Null

SpecNorm == InitNorm /\ [][NormNext]_vars

-----------------------------------------------------------------------------
(* Properties.                                                           *)

\* the last call on the Mongo tool was execute_operation
Executed == mongo_call.op = "execute_operation"

\* the mapping execute_operation handed back
RetMap == mongo_ret.value.items

\* the filter the store was given: filter_dict or {}
CallFilter == IF Truthy(mongo_call.filter) THEN mongo_call.filter.items ELSE EmptyDict

\* a value holds an ObjectId, a Binary, raw bytes or a datetime at some depth
RECURSIVE HasNative(_)
HasNative(v) ==
    CASE v.kind \in {"ObjectId", "Binary", "bytes", "datetime"} -> TRUE
      [] v.kind = "dict" -> \E k \in DOMAIN v.items : HasNative(v.items[k])
      [] v.kind = "list" -> \E i \in DOMAIN v.elems : HasNative(v.elems[i])
      [] OTHER -> FALSE

\* C1: execute_operation never raises: whatever the lifecycle state and the
\* operation, no exception leaves the call.
C1_NeverRaises == Executed => ~IsRaised(mongo_ret)

\* C3: every mapping execute_operation returns holds exactly one of the keys
\* results, result, count, error (and no other key).
C3_ExactlyOneKey ==
    (Executed /\ ~IsRaised(mongo_ret)) =>
        /\ mongo_ret.value.kind = "dict"
        /\ Cardinality(DOMAIN RetMap) = 1
        /\ DOMAIN RetMap \subseteq {"results", "result", "count", "error"}

\* C3's case: a find during which the store failed came back as an error mapping
C3_Witness ==
    /\ Executed /\ ~IsRaised(mongo_ret)
    /\ mongo_call.operation = "find"
    /\ DOMAIN RetMap = {"error"}
    /\ RetMap["error"] = Str("Database operation failed: PyMongoError")

\* C5: over every interleaving of initialize, the query handlers and close,
\* each tool obtains its store connection at most once.
C5_OpenedAtMostOnce == mongo_opens <= 1 /\ pg_opens <= 1

\* C5's case: both tools were opened and closed, and initialize / a query was
\* called again afterwards
C5_Witness ==
    /\ pg_opens = 1 /\ pg_conn = "closed" /\ pg_call.op = "initialize"
    /\ mongo_opens = 1 /\ mongo_closed /\ Executed

\* the last call on the PostgreSQL tool was one of the two schema queries
SchemaQueried == pg_call.op \in {"get_database_structure", "get_table_details"}

NotInitializedFault == Raised("RuntimeError: Tool not initialized")

\* C6: a schema query on a tool on which no initialize has completed raises the
\* "not initialized" fault and runs no catalog statement; on a Ready tool
\* (initialized, connection open) it never raises that fault.
C6_NotInitializedFault ==
    SchemaQueried =>
        /\ ~pg_ever_ready =>
              pg_ret.out = NotInitializedFault /\ pg_ret.executed = 0
        /\ (pg_ever_ready /\ pg_conn = "open") => pg_ret.out # NotInitializedFault

\* C6's case: the structure was asked for after an initialize whose connect raised
C6_Witness ==
    /\ pg_call.op = "get_database_structure"
    /\ pg_connect_failed /\ ~pg_ever_ready
    /\ pg_ret.out = NotInitializedFault

\* C7: no document returned by find or find_one holds, at any depth, an
\* ObjectId, a Binary, raw bytes or a datetime.
C7_NoNativeInResults ==
    (Executed /\ ~IsRaised(mongo_ret)) =>
        /\ "results" \in DOMAIN RetMap =>
              \A i \in DOMAIN RetMap["results"].elems :
                  ~HasNative(RetMap["results"].elems[i])
        /\ "result" \in DOMAIN RetMap => ~HasNative(RetMap["result"])

\* C7's case: find returned two documents, one of them the stored document with
\* native values nested in a sequence
C7_Witness ==
    /\ Executed /\ ~IsRaised(mongo_ret)
    /\ mongo_call.operation = "find"
    /\ "results" \in DOMAIN RetMap
    /\ Len(RetMap["results"].elems) = 2
    /\ HasNative(StoredDocs[1].items["tags"])
    /\ \E i \in 1..2 : RetMap["results"].elems[i] = EncodeMongoDocument(StoredDocs[1])

\* the number of stored documents the filter of the last call matches
MatchCount ==
    Cardinality({i \in DOMAIN knowledge : Matches(knowledge[i], CallFilter)})

\* C10: a results list returned by find holds every matching document when
\* limit is 0, and min(limit, matches) documents when limit is positive, with
\* or without a sort.
C10_FindLimit ==
    (/\ Executed /\ ~IsRaised(mongo_ret)
     /\ mongo_call.operation = "find"
     /\ "results" \in DOMAIN RetMap) =>
        LET n == Len(RetMap["results"].elems)
            limit == mongo_call.limit.n
        IN /\ limit = 0 => n = MatchCount
           /\ limit > 0 => n = Min(limit, MatchCount)

\* C10's case: a sorted find with limit 1 over two matches returned one document
C10_Witness ==
    /\ Executed /\ ~IsRaised(mongo_ret)
    /\ mongo_call.operation = "find"
    /\ "results" \in DOMAIN RetMap
    /\ mongo_call.limit = Num(1)
    /\ Truthy(mongo_call.sort)
    /\ MatchCount >= 2
    /\ Len(RetMap["results"].elems) = 1

\* C4: the normalizer returns a value for every document and never raises.
C4_NormalizerTotal == norm_pc \in {"once", "twice"} => ~IsRaised(norm_once)

\* C8: normalizing a normalized document changes nothing.
C8_Idempotent == norm_pc = "twice" => norm_twice = norm_once

\* the catalog's columns of a public table, in ordinal order, each flagged by
\* membership in the table's own primary key
ExpectedColumns(db, table) ==
    LET rows == {c \in db.columns :
                    c.table_schema = "public" /\ c.table_name = table}
        ordered == OrderedRows(rows, [c \in rows |-> c.ordinal_position])
        pk == UNION {{k.cols[i] : i \in DOMAIN k.cols} :
                        k \in {c \in db.constraints :
                                  /\ c.constraint_type = "PRIMARY KEY"
                                  /\ c.table_schema = "public"
                                  /\ c.table_name = table}}
    IN [i \in DOMAIN ordered |->
            [name |-> ordered[i].column_name, type |-> ordered[i].data_type,
             nullable |-> ordered[i].is_nullable,
             is_primary_key |-> ordered[i].column_name \in pk]]

PublicTables(db) == {t.table_name : t \in {x \in db.tables : x.table_schema = "public"}}

\* the last call was get_database_structure and it returned
StructureReturned ==
    pg_call.op = "get_database_structure" /\ ~IsRaised(pg_ret.out)

\* C2: get_database_structure lists, for every table of the working schema, one
\* entry per catalog column in ordinal order, with name, type, nullability and
\* the primary-key flag.
C2_ColumnsPerTable ==
    StructureReturned =>
        /\ DOMAIN pg_ret.out.value.tables = PublicTables(catalog)
        /\ \A t \in PublicTables(catalog) :
              pg_ret.out.value.tables[t].columns = ExpectedColumns(catalog, t)

\* the column pairs of the foreign keys of the working schema
ForeignKeyPairs(db) ==
    UNION {{<<c.oid, i>> : i \in DOMAIN c.cols} :
              c \in {k \in db.constraints :
                        k.constraint_type = "FOREIGN KEY" /\ k.table_schema = "public"}}

\* the edge of the i-th column pair of the constraint with the given oid
EdgeOf(db, pair) ==
    LET c == CHOOSE k \in db.constraints : k.oid = pair[1]
    IN [from_table |-> c.table_name, from_column |-> c.cols[pair[2]],
        to_table |-> c.ref_table, to_column |-> c.ref_cols[pair[2]]]

\* C9: the relations list holds exactly one edge per referencing/referenced
\* column pair of every foreign key, and no other edge.
C9_RelationsExact ==
    StructureReturned =>
        LET relations == pg_ret.out.value.relations
            pairs == ForeignKeyPairs(catalog)
            edges == {relations[i] : i \in DOMAIN relations}
                     \cup {EdgeOf(catalog, p) : p \in pairs}
        IN \A e \in edges :
              Cardinality({i \in DOMAIN relations : relations[i] = e})
                = Cardinality({p \in pairs : EdgeOf(catalog, p) = e})

=============================================================================
